---------------------------- MODULE Spec2Model ----------------------------
(***************************************************************************)
(* Event-driven backtest: the dispatch loop of core/backtest.py            *)
(* (Backtest._run_backtest) and the moving-average-crossover signal state  *)
(* machine of strategies/mac.py                                            *)
(* (MovingAverageCrossStrategy.calculate_signals).                         *)
(*                                                                         *)
(* The data handler, the portfolio and the execution handler are not part  *)
(* of the sources at hand; they are modelled from their interfaces as      *)
(* nondeterministic collaborators that may enqueue follow-up events.       *)
(***************************************************************************)
EXTENDS Integers, Sequences, FiniteSets, TLC

(***************************************************************************)
(* Bounds of the model.                                                    *)
(***************************************************************************)
\* number of bars the data source holds per symbol before it is exhausted
MaxTicks == 3
\* largest number of MARKET events one update_bars call enqueues
MaxBurst == 2

\* symbol_list, in declaration order
SymbolList == <<"EURUSD">>
Symbols == {SymbolList[k] : k \in 1..Len(SymbolList)}
\* closing prices a bar can carry
Prices == {1, 2}
\* (short_window, long_window) settings a run is constructed with; the
\* constructor does not relate the two
WindowPairs == {<<1, 2>>, <<1, 3>>, <<2, 3>>, <<2, 2>>, <<3, 2>>}

Labels == {"OUT", "LONG", "SHORT"}
NoEvent == [id |-> 0, type |-> "-", symbol |-> "-", dir |-> "-"]

VARIABLES
    pc,                 \* position of _run_backtest
    i,                  \* tick index (local i of _run_backtest)
    continue_backtest,  \* data_handler.continue_backtest
    events,             \* self.events, the queue.Queue
    event,              \* the event taken from the queue and being routed
    signals, orders, fills,   \* the run counters
    bought,             \* strategy.bought: symbol -> label
    current_positions,  \* portfolio.current_positions: symbol -> net position
    bars,               \* data handler's closing prices per symbol, oldest first
    short_window, long_window,
    numeric,            \* the window settings given to the constructor are numbers
    logger,             \* "unopened", "open", "closed"
    stats,              \* self.stats: "None" until the finalize step stores the report
    progress,           \* the percentage of the last write_progress, -1 before the first
    \* ---- history variables (observations, never read by the program) ----
    nput,               \* number of events put on the queue since the tick began
    nget,               \* number of events taken from the queue since the tick began
    routed,             \* counted kind -> number of events of that kind taken from the queue
    calls,              \* collaborator operations called for the event in hand
    lastEval,           \* symbol -> label before / signals put by the evaluation just made
    sigs,               \* symbol -> the first two signal directions emitted in the run
    flatSeen,           \* symbol -> an evaluation after the first signal began flat
    belowSeen,          \* symbol -> an evaluation after the first signal had short < long
    tickSignals,        \* symbol -> signals emitted for it in the current tick
    tickEvals,          \* calculate_signals calls in the current tick
    finalized,          \* number of times _save_equity_and_generate_stats ran
    failed,             \* a collaborator operation has raised
    advances,           \* number of update_bars calls made
    nlogged,            \* number of log_event calls since the tick began
    emitted             \* number of SignalEvents the strategy has put

vars == <<pc, i, continue_backtest, events, event, signals, orders, fills,
          bought, current_positions, bars, short_window, long_window, logger,
          nput, nget, routed, calls, lastEval, sigs, flatSeen, belowSeen,
          tickSignals, tickEvals, numeric, stats, progress, finalized, failed,
          advances, nlogged, emitted>>

prog == <<bought, current_positions, bars, short_window, long_window, numeric>>
\* the report, and the observations of the run as a whole
outcome == <<stats, finalized, failed>>
counters == <<signals, orders, fills>>
history == <<lastEval, sigs, flatSeen, belowSeen, tickSignals, tickEvals>>


(***************************************************************************)
(* The event queue (queue.Queue: first in, first out).                     *)
(***************************************************************************)
Ev(type, symbol, dir) == [id |-> 0, type |-> type, symbol |-> symbol, dir |-> dir]

\* faulty variant of Put: new events go to the front (a stack, not a queue)
PutFront(q, evs, n) == [k \in 1..Len(evs) |-> [evs[k] EXCEPT !.id = n + k]] \o q

\* events.put(e) for each e of evs in turn; n events were put before
Put(q, evs, n) == q \o [k \in 1..Len(evs) |-> [evs[k] EXCEPT !.id = n + k]]

\* events.get(False) on a non-empty queue: the event handed out
Front(q) == Head(q)

\* faulty variant of Rest: a get also discards the event behind the one it returns
RestSkips(q) == SubSeq(q, 3, Len(q))

\* events.get(False) on a non-empty queue: what stays queued
Rest(q) == Tail(q)

\* faulty variant of Empty: the drain stops with one event still queued
EmptyButOne(q) == Len(q) <= 1

\* events.get(False) raises queue.Empty
Empty(q) == q = <<>>

(***************************************************************************)
(* Data handler reads used by the strategy.                                *)
(***************************************************************************)
Min(a, b) == IF a < b THEN a ELSE b

\* faulty variant of LastN: the slice keeps the whole list
LastNWhole(s, n) == s

\* the last n elements of s, all of s when it is shorter (python s[-n:], n >= 1)
LastN(s, n) == SubSeq(s, Len(s) - Min(n, Len(s)) + 1, Len(s))

\* bars.get_latest_bars_values(s, 'close_bid', N): the most recent N closes,
\* fewer when fewer bars exist
get_latest_bars_values(hist, N) == LastN(hist, N)

RECURSIVE Sum(_)
Sum(s) == IF s = <<>> THEN 0 ELSE Head(s) + Sum(Tail(s))

\* np.mean(a) > np.mean(b), for non-empty a and b.  The means are quotients
\* of small integers, so the floating-point comparison agrees with the exact one.
MeanGT(a, b) == Sum(a) * Len(b) > Sum(b) * Len(a)

\* np.mean(a) < np.mean(b)
MeanLT(a, b) == Sum(a) * Len(b) < Sum(b) * Len(a)

(***************************************************************************)
(* MovingAverageCrossStrategy.calculate_signals, for one symbol.           *)
(***************************************************************************)
\* faulty variant of Resync: the cached label is never reset
ResyncNever(label, pos) == label

\* if self.portfolio.current_positions[s] == 0: self.bought[s] = 'OUT'
Resync(label, pos) == IF pos = 0 THEN "OUT" ELSE label

\* if bars is not None and bars != []
HasBars(b) == b # <<>>

\* faulty variant of Transition: the LONG entry forgets self.bought[s] = sig_dir
TransitionKeepsLabel(label, short, long) ==
    IF MeanGT(short, long) /\ label = "OUT" THEN [label |-> "OUT", out |-> <<"LONG">>]
    ELSE IF MeanLT(short, long) /\ label = "OUT" THEN [label |-> "SHORT", out |-> <<"SHORT">>]
    ELSE IF MeanLT(short, long) /\ label = "LONG" THEN [label |-> "OUT", out |-> <<"EXIT">>]
    ELSE IF MeanGT(short, long) /\ label = "SHORT" THEN [label |-> "OUT", out |-> <<"EXIT">>]
    ELSE [label |-> label, out |-> <<>>]

\* faulty variant of Transition: the exits are tested first with "if", so a
\* reversal puts the EXIT and the opposite entry in one evaluation
TransitionTwo(label, short, long) ==
    IF MeanLT(short, long) /\ label = "LONG" THEN [label |-> "SHORT", out |-> <<"EXIT", "SHORT">>]
    ELSE IF MeanGT(short, long) /\ label = "SHORT" THEN [label |-> "LONG", out |-> <<"EXIT", "LONG">>]
    ELSE IF MeanGT(short, long) /\ label = "OUT" THEN [label |-> "LONG", out |-> <<"LONG">>]
    ELSE IF MeanLT(short, long) /\ label = "OUT" THEN [label |-> "SHORT", out |-> <<"SHORT">>]
    ELSE [label |-> label, out |-> <<>>]

\* faulty variant of Transition: the exit from LONG tests short_sma <= long_sma
TransitionLE(label, short, long) ==
    IF MeanGT(short, long) /\ label = "OUT" THEN [label |-> "LONG", out |-> <<"LONG">>]
    ELSE IF MeanLT(short, long) /\ label = "OUT" THEN [label |-> "SHORT", out |-> <<"SHORT">>]
    ELSE IF ~MeanGT(short, long) /\ label = "LONG" THEN [label |-> "OUT", out |-> <<"EXIT">>]
    ELSE IF MeanGT(short, long) /\ label = "SHORT" THEN [label |-> "OUT", out |-> <<"EXIT">>]
    ELSE [label |-> label, out |-> <<>>]

\* faulty variant of Transition: the exit branches come first and do not
\* require the label of the position they close
TransitionExitUnheld(label, short, long) ==
    IF MeanLT(short, long) /\ label # "SHORT" THEN [label |-> "OUT", out |-> <<"EXIT">>]
    ELSE IF MeanGT(short, long) /\ label # "LONG" THEN [label |-> "OUT", out |-> <<"EXIT">>]
    ELSE IF MeanGT(short, long) /\ label = "OUT" THEN [label |-> "LONG", out |-> <<"LONG">>]
    ELSE IF MeanLT(short, long) /\ label = "OUT" THEN [label |-> "SHORT", out |-> <<"SHORT">>]
    ELSE [label |-> label, out |-> <<>>]

\* the if / elif chain on (short_sma, long_sma, bought[s]); out lists the
\* signal directions put on the queue, in order
Transition(label, short, long) ==
    IF MeanGT(short, long) /\ label = "OUT" THEN [label |-> "LONG", out |-> <<"LONG">>]
    ELSE IF MeanLT(short, long) /\ label = "OUT" THEN [label |-> "SHORT", out |-> <<"SHORT">>]
    ELSE IF MeanLT(short, long) /\ label = "LONG" THEN [label |-> "OUT", out |-> <<"EXIT">>]
    ELSE IF MeanGT(short, long) /\ label = "SHORT" THEN [label |-> "OUT", out |-> <<"EXIT">>]
    ELSE [label |-> label, out |-> <<>>]

\* faulty variant of CalcOne: the short mean is taken over the stored
\* history, the long mean over the fetched values
CalcOneFullHistory(label, pos, hist, sw, lw) ==
    LET l0 == Resync(label, pos)
        b  == get_latest_bars_values(hist, lw)
    IN  IF HasBars(b)
        THEN Transition(l0, LastN(hist, sw), LastN(b, lw))
        ELSE [label |-> l0, out |-> <<>>]

\* one pass of the loop body "for s in self.symbol_list"
CalcOne(label, pos, hist, sw, lw) ==
    LET l0 == Resync(label, pos)
        b  == get_latest_bars_values(hist, lw)
    IN  IF HasBars(b)
        THEN Transition(l0, LastN(b, sw), LastN(b, lw))
        ELSE [label |-> l0, out |-> <<>>]

\* the result of the pass for symbol s in the current state
Eval(s) == CalcOne(bought[s], current_positions[s], bars[s], short_window, long_window)

\* the SignalEvents put by one call, symbols in declaration order
RECURSIVE SignalsFrom(_)
SignalsFrom(k) ==
    IF k > Len(SymbolList) THEN <<>>
    ELSE LET s == SymbolList[k]
             o == Eval(s).out
         IN  [j \in 1..Len(o) |-> Ev("SIGNAL", s, o[j])] \o SignalsFrom(k + 1)

\* short_sma < long_sma as the evaluation of s computes it
Below(s) ==
    LET b == get_latest_bars_values(bars[s], long_window)
    IN  HasBars(b) /\ MeanLT(LastN(b, short_window), LastN(b, long_window))

\* short_sma > long_sma as the evaluation of s computes it
Above(s) ==
    LET b == get_latest_bars_values(bars[s], long_window)
    IN  HasBars(b) /\ MeanGT(LastN(b, short_window), LastN(b, long_window))

(***************************************************************************)
(* The run counters.                                                       *)
(***************************************************************************)
\* faulty variant of Counted: the FILL branch increments the order counter
CountedMixed(kind, c) ==
    IF kind = "SIGNAL" THEN <<c[1] + 1, c[2], c[3]>>
    ELSE IF kind = "ORDER" THEN <<c[1], c[2] + 1, c[3]>>
    ELSE IF kind = "FILL" THEN <<c[1], c[2] + 1, c[3]>>
    ELSE c

\* faulty variant of Counted: the last branch is an else, taken by every
\* other kind
CountedElse(kind, c) ==
    IF kind = "SIGNAL" THEN <<c[1] + 1, c[2], c[3]>>
    ELSE IF kind = "ORDER" THEN <<c[1], c[2] + 1, c[3]>>
    ELSE <<c[1], c[2], c[3] + 1>>

\* self.signals += 1 / self.orders += 1 / self.fills += 1 in the branch of kind
Counted(kind, c) ==
    IF kind = "SIGNAL" THEN <<c[1] + 1, c[2], c[3]>>
    ELSE IF kind = "ORDER" THEN <<c[1], c[2] + 1, c[3]>>
    ELSE IF kind = "FILL" THEN <<c[1], c[2], c[3] + 1>>
    ELSE c

Kinds == {"MARKET", "SIGNAL", "ORDER", "FILL", "CLOSE_PENDING_ORDERS"}
\* the kinds that have a run counter
CountedKinds == {"SIGNAL", "ORDER", "FILL"}

(***************************************************************************)
(* Initial state: Backtest.__init__ and the collaborators' constructors.   *)
(***************************************************************************)
NoEval == [label |-> "-", out |-> <<>>]

\* the strategy_params_dict a run may be constructed with: a pair of numeric
\* windows, or a window that is not a number (its value is then never used
\* as one; 0 stands for it)
Settings ==
    {[short_window |-> w[1], long_window |-> w[2], numeric |-> TRUE] : w \in WindowPairs}
        \cup {[short_window |-> 0, long_window |-> 0, numeric |-> FALSE]}

\* the state after construction with one of the settings S: neither
\* constructor looks at the values it stores
InitWith(S) ==
    /\ pc = "start"
    /\ i = 0
    /\ continue_backtest = TRUE
    /\ events = <<>>
    /\ event = NoEvent
    /\ signals = 0 /\ orders = 0 /\ fills = 0
    /\ bought = [s \in Symbols |-> "OUT"]
    /\ current_positions = [s \in Symbols |-> 0]
    /\ bars = [s \in Symbols |-> <<>>]
    /\ \E c \in S :
          /\ short_window = c.short_window
          /\ long_window = c.long_window
          /\ numeric = c.numeric
    /\ logger = "unopened"
    /\ stats = "None"
    /\ progress = 0 - 1
    /\ nput = 0 /\ nget = 0
    /\ routed = [k \in CountedKinds |-> 0]
    /\ calls = <<>>
    /\ lastEval = [s \in Symbols |-> NoEval]
    /\ sigs = [s \in Symbols |-> <<>>]
    /\ flatSeen = [s \in Symbols |-> FALSE]
    /\ belowSeen = [s \in Symbols |-> FALSE]
    /\ tickSignals = [s \in Symbols |-> 0]
    /\ tickEvals = 0
    /\ finalized = 0
    /\ failed = FALSE
    /\ advances = 0
    /\ nlogged = 0
    /\ emitted = 0

Init == InitWith(Settings)

(***************************************************************************)
(* Collaborators outside the sources at hand, from their interfaces.       *)
(***************************************************************************)
\* n copies of e
Copies(n, e) == [k \in 1..n |-> e]

\* the None sentinel, and an event of a kind the loop has no branch for
NoneEvent == Ev("None", "-", "-")
OtherEvent == Ev("OTHER", "-", "-")

\* what one update_bars call may put: up to MaxBurst MARKET events, or a
\* None or an unrecognized event followed by a MARKET event
DataPuts ==
    {Copies(n, Ev("MARKET", "-", "-")) : n \in 0..MaxBurst}
        \cup {<<NoneEvent, Ev("MARKET", "-", "-")>>, <<OtherEvent, Ev("MARKET", "-", "-")>>}

\* what portfolio.update_signal may put: nothing, an order for the signal, or
\* a close-pending-orders request followed by the order
SignalFollowUps(e) ==
    { <<>>,
      <<Ev("ORDER", e.symbol, e.dir)>>,
      <<Ev("CLOSE_PENDING_ORDERS", e.symbol, "-"), Ev("ORDER", e.symbol, e.dir)>> }

\* what execution_handler.execute_order may put: nothing, or the fill of the order
OrderFollowUps(e) == { <<>>, <<Ev("FILL", e.symbol, e.dir)>> }

\* the net position portfolio.update_fill leaves for a fill of direction dir
PositionAfter(dir, pos) ==
    IF dir = "LONG" THEN 1 ELSE IF dir = "SHORT" THEN 0 - 1 ELSE 0

\* data_handler.get_position_in_percentage(), rounded: 100 once the data is
\* exhausted, less before
Percentage ==
    IF continue_backtest
    THEN (100 * Len(bars[SymbolList[1]])) \div (Len(bars[SymbolList[1]]) + 1)
    ELSE 100

\* data_handler.update_bars() of a source holding maxbars bars with closes in
\* P: it either appends one bar per symbol, or finds its data exhausted and
\* clears continue_backtest; either way it may put the events of one of puts
update_bars_from(P, maxbars, puts) ==
    /\ \E f \in puts :
          /\ events' = Put(events, f, 0)
          /\ nput' = Len(f)
    /\ \/ /\ \A s \in Symbols : Len(bars[s]) < maxbars
          /\ \E px \in [Symbols -> P] :
                bars' = [s \in Symbols |-> Append(bars[s], px[s])]
          /\ continue_backtest' = TRUE
       \/ /\ bars' = bars
          /\ continue_backtest' = FALSE

update_bars == update_bars_from(Prices, MaxTicks, DataPuts)

(***************************************************************************)
(* Backtest._run_backtest and Backtest.simulate_trading.                   *)
(***************************************************************************)
\* faulty variant of MarketOps: the portfolio clock is advanced before the
\* resting orders are updated
MarketOpsSwapped == <<"calculate_signals", "update_timeindex", "update_stop_and_limit_orders">>

\* the operations a MARKET event is routed to, in call order
MarketOps == <<"calculate_signals", "update_stop_and_limit_orders", "update_timeindex">>

\* the next operation of the MARKET branch, "-" when all were called
NextMarketOp == IF Len(calls) < Len(MarketOps) THEN MarketOps[Len(calls) + 1] ELSE "-"

\* after a call of the MARKET branch returns: the next call, or log_event
AfterMarketOp == IF Len(calls) + 1 < Len(MarketOps) THEN "market" ELSE "log"

\* the counter update of the branch the event in hand takes
CountEvent ==
    LET c == Counted(event.type, counters)
    IN  signals' = c[1] /\ orders' = c[2] /\ fills' = c[3]

\* faulty variant of ExitIndex: the iteration that breaks is not counted
ExitIndexUncounted(n) == n

\* i += 1 at the head of the iteration that finds continue_backtest false
ExitIndex(n) == n + 1

\* faulty variant of Propagates: the failure is caught and the loop goes on
Swallowed == "log"

\* where a failure of a collaborator leaves the run: no try/except encloses
\* the calls, so _run_backtest and simulate_trading are left at once
Propagates == "raised"

\* faulty variant of FinalizeReady: the finalize step also runs at a tick head
FinalizeInLoop == pc \in {"done", "tick"}

\* simulate_trading calls _save_equity_and_generate_stats after _run_backtest returned
FinalizeReady == pc = "done"

\* logger.open(); write_progress(); i = 0
OpenLogger ==
    /\ pc = "start"
    /\ logger' = "open"
    /\ progress' = Percentage
    /\ pc' = "tick"
    /\ UNCHANGED <<i, continue_backtest, events, event, counters, prog,
                   nput, nget, routed, calls, history, outcome, advances,
                   nlogged, emitted>>

\* i += 1; write_progress(); continue_backtest holds: the update_bars call
\* of a data source (P, maxbars, puts)
UpdateBarsFrom(P, maxbars, puts) ==
    /\ pc = "tick"
    /\ continue_backtest
    /\ i' = i + 1
    /\ progress' = Percentage
    /\ update_bars_from(P, maxbars, puts)
    /\ advances' = advances + 1
    /\ nget' = 0
    /\ nlogged' = 0
    /\ tickSignals' = [s \in Symbols |-> 0]
    /\ tickEvals' = 0
    /\ pc' = "drain"
    /\ UNCHANGED <<event, counters, bought, current_positions, short_window,
                   long_window, numeric, logger, routed, calls, lastEval, sigs,
                   flatSeen, belowSeen, outcome, emitted>>

\* i += 1; write_progress(); continue_backtest holds: data_handler.update_bars()
UpdateBars == UpdateBarsFrom(Prices, MaxTicks, DataPuts)

\* i += 1; write_progress(); continue_backtest is false: break, print, logger.close()
ExitLoop ==
    /\ pc = "tick"
    /\ ~continue_backtest
    /\ i' = ExitIndex(i)
    /\ progress' = Percentage
    /\ logger' = "closed"
    /\ pc' = "done"
    /\ UNCHANGED <<continue_backtest, events, event, counters, prog,
                   nput, nget, routed, calls, history, outcome, advances,
                   nlogged, emitted>>

\* simulate_trading after _run_backtest returned:
\* portfolio.create_equity_curve_dataframe(); self.stats = portfolio.output_summary_stats()
SaveEquityAndGenerateStats ==
    /\ FinalizeReady
    /\ stats' = "stats"
    /\ finalized' = finalized + 1
    /\ pc' = "returned"
    /\ UNCHANGED <<i, continue_backtest, events, event, counters, prog, logger,
                   progress, nput, nget, routed, calls, history, failed, advances,
                   nlogged, emitted>>

\* event = self.events.get(False) returns an event
GetEvent ==
    /\ pc = "drain"
    /\ ~Empty(events)
    /\ event' = Front(events)
    /\ events' = Rest(events)
    /\ nget' = nget + 1
    /\ routed' = IF Front(events).type \in CountedKinds
                 THEN [routed EXCEPT ![Front(events).type] = @ + 1]
                 ELSE routed
    /\ calls' = <<>>
    /\ pc' = IF Front(events).type = "MARKET" THEN "market" ELSE "route"
    /\ UNCHANGED <<i, continue_backtest, counters, prog, logger, progress, nput,
                   history, outcome, advances, nlogged, emitted>>

\* self.events.get(False) raises queue.Empty: break; time.sleep(self.heartbeat)
QueueEmpty ==
    /\ pc = "drain"
    /\ Empty(events)
    /\ pc' = "tick"
    /\ UNCHANGED <<i, continue_backtest, events, event, counters, prog, logger,
                   progress, nput, nget, routed, calls, history, outcome, advances,
                   nlogged, emitted>>

\* event.type == 'CLOSE_PENDING_ORDERS': execution_handler.clear_limit_or_stop_orders(event)
ClearLimitOrStopOrders ==
    /\ pc = "route"
    /\ event.type = "CLOSE_PENDING_ORDERS"
    /\ calls' = Append(calls, "clear_limit_or_stop_orders")
    /\ pc' = "log"
    /\ UNCHANGED <<i, continue_backtest, events, event, counters, prog, logger,
                   progress, nput, nget, routed, history, outcome, advances,
                   nlogged, emitted>>

\* event is None, or no branch of the if / elif chain matches event.type:
\* nothing is called and no counter changes
RouteIgnored ==
    /\ pc = "route"
    /\ event.type \notin Kinds
    /\ CountEvent
    /\ pc' = "log"
    /\ UNCHANGED <<i, continue_backtest, events, event, prog, logger, progress,
                   nput, nget, routed, calls, history, outcome, advances,
                   nlogged, emitted>>

\* event.type == 'MARKET': self.strategy.calculate_signals(event), the whole
\* loop over symbol_list.  With a window that is not a number the call cannot
\* return: slicing with it raises TypeError (see CollaboratorRaises).
CalculateSignals ==
    /\ pc = "market"
    /\ NextMarketOp = "calculate_signals"
    /\ numeric
    /\ bought' = [s \in Symbols |-> Eval(s).label]
    /\ events' = Put(events, SignalsFrom(1), nput)
    /\ nput' = nput + Len(SignalsFrom(1))
    /\ emitted' = emitted + Len(SignalsFrom(1))
    /\ calls' = Append(calls, "calculate_signals")
    /\ lastEval' = [s \in Symbols |-> [label |-> bought[s], out |-> Eval(s).out]]
    /\ sigs' = [s \in Symbols |-> SubSeq(sigs[s] \o Eval(s).out, 1,
                                         Min(2, Len(sigs[s]) + Len(Eval(s).out)))]
    /\ flatSeen' = [s \in Symbols |->
                      flatSeen[s] \/ (Len(sigs[s]) = 1 /\ current_positions[s] = 0)]
    /\ belowSeen' = [s \in Symbols |-> belowSeen[s] \/ (Len(sigs[s]) = 1 /\ Below(s))]
    /\ tickSignals' = [s \in Symbols |-> tickSignals[s] + Len(Eval(s).out)]
    /\ tickEvals' = tickEvals + 1
    /\ pc' = AfterMarketOp
    /\ UNCHANGED <<i, continue_backtest, event, counters, current_positions, bars,
                   short_window, long_window, numeric, logger, progress, nget,
                   routed, outcome, advances, nlogged>>

\* self.execution_handler.update_stop_and_limit_orders(event)
UpdateStopAndLimitOrders ==
    /\ pc = "market"
    /\ NextMarketOp = "update_stop_and_limit_orders"
    /\ calls' = Append(calls, "update_stop_and_limit_orders")
    /\ pc' = AfterMarketOp
    /\ UNCHANGED <<i, continue_backtest, events, event, counters, prog, logger,
                   progress, nput, nget, routed, history, outcome, advances,
                   nlogged, emitted>>

\* self.portfolio.update_timeindex(event)
UpdateTimeindex ==
    /\ pc = "market"
    /\ NextMarketOp = "update_timeindex"
    /\ calls' = Append(calls, "update_timeindex")
    /\ pc' = AfterMarketOp
    /\ UNCHANGED <<i, continue_backtest, events, event, counters, prog, logger,
                   progress, nput, nget, routed, history, outcome, advances,
                   nlogged, emitted>>

\* event.type == 'SIGNAL': self.signals += 1; self.portfolio.update_signal(event)
UpdateSignal ==
    /\ pc = "route"
    /\ event.type = "SIGNAL"
    /\ CountEvent
    /\ \E f \in SignalFollowUps(event) :
          /\ events' = Put(events, f, nput)
          /\ nput' = nput + Len(f)
    /\ calls' = Append(calls, "update_signal")
    /\ pc' = "log"
    /\ UNCHANGED <<i, continue_backtest, event, prog, logger, progress, nget,
                   routed, history, outcome, advances, nlogged, emitted>>

\* event.type == 'ORDER': self.orders += 1; self.execution_handler.execute_order(event)
ExecuteOrder ==
    /\ pc = "route"
    /\ event.type = "ORDER"
    /\ CountEvent
    /\ \E f \in OrderFollowUps(event) :
          /\ events' = Put(events, f, nput)
          /\ nput' = nput + Len(f)
    /\ calls' = Append(calls, "execute_order")
    /\ pc' = "log"
    /\ UNCHANGED <<i, continue_backtest, event, prog, logger, progress, nget,
                   routed, history, outcome, advances, nlogged, emitted>>

\* event.type == 'FILL': self.fills += 1; self.portfolio.update_fill(event)
UpdateFill ==
    /\ pc = "route"
    /\ event.type = "FILL"
    /\ CountEvent
    /\ current_positions' = [current_positions EXCEPT
                               ![event.symbol] = PositionAfter(event.dir, @)]
    /\ calls' = Append(calls, "update_fill")
    /\ pc' = "log"
    /\ UNCHANGED <<i, continue_backtest, events, event, bought, bars, short_window,
                   long_window, numeric, logger, progress, nput, nget, routed,
                   history, outcome, advances, nlogged, emitted>>

\* self.log_event(i, event), then back to the head of the drain loop
LogEvent ==
    /\ pc = "log"
    /\ pc' = "drain"
    /\ nlogged' = nlogged + 1
    /\ lastEval' = [s \in Symbols |-> NoEval]
    /\ UNCHANGED <<i, continue_backtest, events, event, counters, prog, logger,
                   progress, nput, nget, routed, calls, sigs, flatSeen, belowSeen,
                   tickSignals, tickEvals, outcome, advances, emitted>>

\* a collaborator operation raises (the branch of a recognized event, one of
\* the MARKET operations, or update_bars): nothing in _run_backtest or
\* simulate_trading catches it, so the run ends there; the counter of the
\* branch was already incremented
CollaboratorRaises ==
    /\ \/ /\ pc = "route"
          /\ event.type \in Kinds
          /\ CountEvent
          /\ UNCHANGED <<i, progress, advances>>
       \/ /\ pc = "market"
          /\ UNCHANGED <<counters, i, progress, advances>>
       \/ /\ pc = "tick"
          /\ continue_backtest
          /\ UNCHANGED counters
          /\ i' = i + 1
          /\ progress' = Percentage
          /\ advances' = advances + 1
    /\ failed' = TRUE
    /\ pc' = Propagates
    /\ UNCHANGED <<continue_backtest, events, event, prog, logger, stats, finalized,
                   nput, nget, routed, calls, history, nlogged, emitted>>

Next ==
    \/ OpenLogger
    \/ UpdateBars
    \/ ExitLoop
    \/ SaveEquityAndGenerateStats
    \/ GetEvent
    \/ QueueEmpty
    \/ ClearLimitOrStopOrders
    \/ RouteIgnored
    \/ CalculateSignals
    \/ UpdateStopAndLimitOrders
    \/ UpdateTimeindex
    \/ UpdateSignal
    \/ ExecuteOrder
    \/ UpdateFill
    \/ LogEvent
    \/ CollaboratorRaises

Spec == Init /\ [][Next]_vars

\* the run is a single thread that keeps going while it has a step to take
FairSpec == Spec /\ WF_vars(Next)

(***************************************************************************)
(* Properties.                                                             *)
(***************************************************************************)
\* an evaluation of s has just been made and its MARKET event is still in hand
Evaluated(s) == lastEval[s].label # "-"

\* q is an initial part of r
IsPrefix(q, r) == Len(q) <= Len(r) /\ \A k \in 1..Len(q) : q[k] = r[k]

\* C1: whenever the loop is about to ask the data source for the next advance,
\* the queue is empty and every event put since the previous advance began,
\* follow-ups included, was taken from the queue and routed.
DrainExhaustive == pc = "tick" => (events = <<>> /\ nget = nput)

\* C1 witness: a tick ended in which a market event and its signal, order and
\* fill were all routed.
DrainedFollowUps == pc = "tick" /\ i >= 1 /\ nput >= 4 /\ nget = nput /\ fills >= 1

\* C2: the operations called for a MARKET event are always an initial part of
\* calculate_signals, update_stop_and_limit_orders, update_timeindex, and all
\* three once its routing has finished; no other event reaches them.
MarketRoutedInOrder ==
    LET three == <<"calculate_signals", "update_stop_and_limit_orders", "update_timeindex">>
    IN  /\ event.type = "MARKET" =>
            /\ IsPrefix(calls, three)
            /\ pc = "market" => Len(calls) < 3
            /\ pc \in {"log", "drain", "tick", "done"} => calls = three
        /\ event.type # "MARKET" => \A k \in 1..Len(calls) : \A j \in 1..3 : calls[k] # three[j]

\* C2 witness: the routing of a MARKET event has finished with all three called.
MarketRouted == pc = "log" /\ event.type = "MARKET" /\ Len(calls) = 3

\* C3: the queue hands events out in the order they were put: the queued
\* events carry the consecutive ordinals after the last one handed out, the
\* event in hand is the last one handed out, and a signal put while a MARKET
\* event is evaluated is still queued, behind everything queued before it,
\* while that event's remaining operations run.
FifoOrder ==
    /\ nput = nget + Len(events)
    /\ \A k \in 1..Len(events) : events[k].id = nget + k
    /\ pc \in {"route", "market", "log"} => event.id = nget
    /\ (pc \in {"market", "log"} /\ event.type = "MARKET") =>
          \A s \in Symbols : \A j \in 1..Len(lastEval[s].out) :
             \E k \in 1..Len(events) :
                /\ events[k].type = "SIGNAL"
                /\ events[k].symbol = s
                /\ events[k].dir = lastEval[s].out[j]
                /\ events[k].id > event.id

\* C3 witness: a signal put during the first of two queued MARKET events is
\* routed after the second one.
SignalAfterQueuedMarket ==
    pc = "route" /\ event.type = "SIGNAL" /\ event.id = 3 /\ tickEvals = 2

\* C4: each counter equals the number of events of its kind taken from the
\* queue, less the one in hand whose branch has not run yet; the number taken
\* only grows, so no counter decreases or is reset.
CountersMatchRouted ==
    LET inHand(k) == IF pc = "route" /\ event.type = k THEN 1 ELSE 0
    IN  /\ signals = routed["SIGNAL"] - inHand("SIGNAL")
        /\ orders = routed["ORDER"] - inHand("ORDER")
        /\ fills = routed["FILL"] - inHand("FILL")

\* C4 witness: a finished run with different numbers of signals, orders and fills.
CountedRun == pc = "done" /\ signals > orders /\ orders > fills /\ fills >= 1

\* C5: an evaluation of an instrument with fewer than long_window closes puts
\* no signal for it.
ShortHistoryNoSignal ==
    \A s \in Symbols :
        (Evaluated(s) /\ Len(bars[s]) < long_window) => lastEval[s].out = <<>>

\* C6 as stated: once the first signal of an instrument is LONG and a later
\* evaluation had short_sma < long_sma, its signals are LONG then EXIT.
LongThenExit ==
    \A s \in Symbols :
        (Len(sigs[s]) >= 1 /\ sigs[s][1] = "LONG" /\ belowSeen[s])
            => sigs[s] = <<"LONG", "EXIT">>

\* C6: once the first signal of an instrument is LONG, and the portfolio
\* reported a non-zero position at the start of every later evaluation up to
\* its next signal, that next signal is EXIT and is put by the first
\* evaluation with short_sma < long_sma.
LongThenExitWhileHeld ==
    \A s \in Symbols :
        (Len(sigs[s]) >= 1 /\ sigs[s][1] = "LONG" /\ ~flatSeen[s])
            => /\ belowSeen[s] => sigs[s] = <<"LONG", "EXIT">>
               /\ Len(sigs[s]) = 2 => (sigs[s][2] = "EXIT" /\ belowSeen[s])

\* C6 witness: LONG then EXIT with the position held in between.
LongExitSeen == \E s \in Symbols : sigs[s] = <<"LONG", "EXIT">> /\ ~flatSeen[s]

\* C7 as stated: no instrument gets two signals in one tick.
OneSignalPerTick == \A s \in Symbols : tickSignals[s] <= 1

\* C7: each evaluation puts at most one signal per instrument, so a tick puts
\* at most as many as it has evaluations (one, when the advance put one
\* MARKET event).
OneSignalPerEvaluation ==
    \A s \in Symbols :
        /\ Len(lastEval[s].out) <= 1
        /\ tickSignals[s] <= tickEvals

\* C7 witness: a tick with two evaluations that each put a signal.
TwoSignalsInTick == \E s \in Symbols : tickEvals = 2 /\ tickSignals[s] = 2

\* C8: with at least long_window closes, the evaluation follows the table on
\* the resynchronised label; equal means change nothing.
TransitionTable ==
    \A s \in Symbols :
        (Evaluated(s) /\ Len(bars[s]) >= long_window) =>
            LET n   == Min(short_window, long_window)
                sS  == Sum(SubSeq(bars[s], Len(bars[s]) - n + 1, Len(bars[s])))
                sL  == Sum(SubSeq(bars[s], Len(bars[s]) - long_window + 1, Len(bars[s])))
                gt  == sS * long_window > sL * n
                lt  == sS * long_window < sL * n
                eff == IF current_positions[s] = 0 THEN "OUT" ELSE lastEval[s].label
                out == lastEval[s].out
            IN  /\ (gt /\ eff = "OUT") => (bought[s] = "LONG" /\ out = <<"LONG">>)
                /\ (lt /\ eff = "OUT") => (bought[s] = "SHORT" /\ out = <<"SHORT">>)
                /\ (lt /\ eff = "LONG") => (bought[s] = "OUT" /\ out = <<"EXIT">>)
                /\ (gt /\ eff = "SHORT") => (bought[s] = "OUT" /\ out = <<"EXIT">>)
                /\ ((~gt /\ ~lt) \/ (gt /\ eff = "LONG") \/ (lt /\ eff = "SHORT"))
                      => (bought[s] = eff /\ out = <<>>)

\* C8 witness: a held LONG label met equal means and nothing changed.
EqualMeansNoChange ==
    \E s \in Symbols :
        /\ Evaluated(s) /\ Len(bars[s]) >= long_window
        /\ current_positions[s] # 0 /\ lastEval[s].label = "LONG"
        /\ ~Above(s) /\ ~Below(s)
        /\ bought[s] = "LONG"

\* C9: an evaluation that starts with a flat position puts no EXIT and leaves
\* the label OUT unless it puts an entry signal, whatever the cached label
\* was; resetting twice is the same as resetting once.
ResyncOnFlat ==
    /\ \A s \in Symbols :
          (Evaluated(s) /\ current_positions[s] = 0) =>
              /\ lastEval[s].out \in {<<>>, <<"LONG">>, <<"SHORT">>}
              /\ bought[s] = IF lastEval[s].out = <<>> THEN "OUT" ELSE lastEval[s].out[1]
    /\ \A l \in Labels : Resync(Resync(l, 0), 0) = Resync(l, 0) /\ Resync(l, 0) = "OUT"

\* C9 witness: a stale LONG label met a flat position and short_sma < long_sma.
StaleLabelReset ==
    \E s \in Symbols :
        /\ Evaluated(s) /\ current_positions[s] = 0
        /\ lastEval[s].label = "LONG" /\ Below(s)

\* C10: once an advance has reported exhaustion, no event is taken from the
\* queue or routed.
NoPartialTick == ~continue_backtest => pc \notin {"route", "market", "log"}


\* C11: under FairSpec (the data source is exhausted after at most MaxTicks
\* bars and every collaborator puts finitely many events) a run whose
\* collaborators do not fail eventually returns from simulate_trading, and
\* the finalize step has run only once the loop was left and the logger
\* closed, and then exactly once; it never runs inside the loop.
ReturnsAndFinalizesOnce ==
    /\ <>(pc = "returned" \/ failed)
    /\ [](finalized > 0 => (finalized = 1 /\ pc = "returned" /\ logger = "closed"
                              /\ stats = "stats" /\ ~continue_backtest))
    /\ [](pc \notin {"returned"} => (finalized = 0 /\ stats = "None"))

\* a run returned after several ticks, with its report stored
ReturnedWithStats == pc = "returned" /\ finalized = 1 /\ stats = "stats" /\ i > 2

\* C12: whenever _run_backtest has ended, by returning or by a failure of a
\* collaborator operation, the logger it opened is closed.
LoggerClosedAtEnd == pc \in {"done", "returned", "raised"} => logger = "closed"

\* C13: a run constructed with a window setting that is not a number never
\* starts a tick: no advance of the data source is requested and no event is
\* taken from the queue.
NoTickWithInvalidSetting == ~numeric => (i = 0 /\ advances = 0 /\ nget = 0)

\* C14: once a collaborator operation has failed the run is left by the
\* exception: from then on no event is taken or logged, no advance is
\* requested, no operation is called again and no counter moves, and the
\* finalize step has not run and never runs.
FailurePropagates ==
    /\ [](failed => (pc = "raised" /\ finalized = 0 /\ stats = "None"))
    /\ [][failed => UNCHANGED <<nget, nlogged, advances, i, calls, counters,
                                events, finalized, stats>>]_vars

\* execute_order failed while another event was still queued behind the order
OrderFailedWithBacklog ==
    failed /\ pc = "raised" /\ event.type = "ORDER" /\ events # <<>>

(***************************************************************************)
(* The end-to-end scenario: windows 3 and 5, one instrument, a fixed       *)
(* series of closes delivered one bar per tick with one MARKET event,      *)
(* every signal turned into an order and every order filled in its tick.   *)
(***************************************************************************)
ScenarioCloses == <<10, 10, 10, 10, 10, 11, 12, 13, 9, 8, 7>>

ScenarioSettings == {[short_window |-> 3, long_window |-> 5, numeric |-> TRUE]}

ScenarioInit == InitWith(ScenarioSettings)

\* the advance of the scenario's data source: the next close of the series
\* with one MARKET event (a None sentinel may precede it), exhaustion only
\* when the series is used up
ScenarioUpdateBars ==
    /\ UpdateBarsFrom({ScenarioCloses[k] : k \in 1..Len(ScenarioCloses)},
                      Len(ScenarioCloses),
                      {<<Ev("MARKET", "-", "-")>>, <<NoneEvent, Ev("MARKET", "-", "-")>>})
    /\ \A s \in Symbols : IsPrefix(bars'[s], ScenarioCloses)
    /\ continue_backtest' = (\E s \in Symbols : Len(bars[s]) < Len(ScenarioCloses))

\* the portfolio turns the signal into an order
ScenarioUpdateSignal == UpdateSignal /\ Len(events') > Len(events)

\* the execution handler fills the order at once
ScenarioExecuteOrder == ExecuteOrder /\ Len(events') > Len(events)

ScenarioNext ==
    \/ OpenLogger
    \/ ScenarioUpdateBars
    \/ ExitLoop
    \/ SaveEquityAndGenerateStats
    \/ GetEvent
    \/ QueueEmpty
    \/ ClearLimitOrStopOrders
    \/ RouteIgnored
    \/ CalculateSignals
    \/ UpdateStopAndLimitOrders
    \/ UpdateTimeindex
    \/ ScenarioUpdateSignal
    \/ ScenarioExecuteOrder
    \/ UpdateFill
    \/ LogEvent

ScenarioSpec == ScenarioInit /\ [][ScenarioNext]_vars

\* the latest close the evaluation of s saw
LatestClose(s) == bars[s][Len(bars[s])]

\* C15: in the scenario the evaluation of the bar with close 11 emits LONG
\* and is the first at which the 3-period mean exceeds the 5-period mean,
\* the evaluation of the bar with close 8 emits EXIT and is the first after
\* it at which the 3-period mean is below the 5-period mean, and no other
\* evaluation up to the EXIT emits a signal: the first two signals of the run
\* are LONG then EXIT.
ScenarioLongThenExit ==
    \A s \in Symbols :
        /\ IsPrefix(sigs[s], <<"LONG", "EXIT">>)
        /\ Evaluated(s) =>
              /\ LatestClose(s) = 11 => (lastEval[s].out = <<"LONG">> /\ Above(s))
              /\ LatestClose(s) = 8 => (lastEval[s].out = <<"EXIT">> /\ Below(s))
              /\ LatestClose(s) = 10 => (lastEval[s].out = <<>> /\ ~Above(s))
              /\ LatestClose(s) \in {12, 13, 9} => (lastEval[s].out = <<>> /\ ~Below(s))

\* the scenario ran to its end with LONG then EXIT emitted
ScenarioCompleted ==
    pc = "returned" /\ \A s \in Symbols : sigs[s] = <<"LONG", "EXIT">>

Ignored == event.type \notin Kinds

\* C17: when an ignored event reaches the logging hook, no operation was
\* called for it, no counter moved (each still equals the number of events of
\* its kind taken) and the run has not failed; and every event taken in the
\* tick, ignored or not, was logged once, after its routing: the number
\* logged is the number taken less the one in hand, so when the drain ends
\* every event put in the tick was logged.
IgnoredIsNoOpAndLogged ==
    /\ (pc = "log" /\ Ignored) =>
          /\ calls = <<>>
          /\ ~failed
          /\ signals = routed["SIGNAL"] /\ orders = routed["ORDER"] /\ fills = routed["FILL"]
    /\ pc \in {"route", "market", "log"} => nlogged = nget - 1
    /\ pc \in {"drain", "tick", "done", "returned"} => nlogged = nget
    /\ pc = "tick" => nlogged = nput

\* an unrecognized event was routed while other events wait behind it
IgnoredWithBacklog == pc = "log" /\ event.type = OtherEvent.type /\ events # <<>>

\* C18: when _run_backtest has returned normally the queue is empty, every
\* event put in the last tick was taken, and the signal counter equals the
\* number of SignalEvents the strategy put during the run.
QueueEmptyAtReturn ==
    pc \in {"done", "returned"} =>
        (events = <<>> /\ nget = nput /\ signals = emitted)

\* a run returned with several signals emitted and counted
ReturnedWithSignals == pc = "done" /\ emitted >= 2 /\ signals = emitted

\* C19: a run constructed with short_window >= long_window (the constructor
\* accepts it) never emits a signal: no evaluation puts one, none is ever
\* counted, and every label is OUT throughout, whatever the prices.
NoSignalWhenShortNotBelowLong ==
    (numeric /\ short_window >= long_window) =>
        /\ emitted = 0 /\ signals = 0
        /\ \A s \in Symbols :
              /\ bought[s] = "OUT"
              /\ sigs[s] = <<>>
              /\ Evaluated(s) => (lastEval[s].out = <<>> /\ ~Above(s) /\ ~Below(s))

\* a run with short_window > long_window evaluated a rising history longer
\* than long_window
LongerShortWindowEvaluated ==
    /\ numeric /\ short_window > long_window
    /\ \E s \in Symbols :
          /\ Evaluated(s)
          /\ Len(bars[s]) > long_window
          /\ bars[s][1] < bars[s][Len(bars[s])]

\* C20: an evaluation emits EXIT for an instrument only if the portfolio
\* reported a non-zero position for it at its start, and then it found the
\* label LONG or SHORT and left it OUT; and after an evaluation a label of
\* LONG or SHORT means the position was non-zero at its start or the entry
\* signal of that label was emitted in it.
ExitOnlyWhenHeld ==
    \A s \in Symbols :
        Evaluated(s) =>
            /\ (\E k \in 1..Len(lastEval[s].out) : lastEval[s].out[k] = "EXIT") =>
                  /\ current_positions[s] # 0
                  /\ lastEval[s].label \in {"LONG", "SHORT"}
                  /\ bought[s] = "OUT"
            /\ bought[s] \in {"LONG", "SHORT"} =>
                  (current_positions[s] # 0 \/ lastEval[s].out = <<bought[s]>>)

\* an EXIT was emitted for a held short position
ExitFromShort ==
    \E s \in Symbols :
        /\ Evaluated(s) /\ lastEval[s].out = <<"EXIT">>
        /\ lastEval[s].label = "SHORT" /\ current_positions[s] # 0
====
